---- MODULE Spec2Model ----
(***************************************************************************)
(* aiomemq: an in-memory publish/subscribe broker (src/cpp/aiomemq.cpp).   *)
(*                                                                         *)
(* One io_context thread runs every completion handler to the end, so one  *)
(* action of this module is one invocation of the read callback of         *)
(* Session::do_read (or of the accept callback), with every call it makes. *)
(* asio::write is synchronous and throws on a transport error; nothing     *)
(* catches the exception, so it leaves io.run() and main(): the process    *)
(* terminates with the handler half done.                                  *)
(***************************************************************************)
EXTENDS Integers, Sequences, FiniteSets, TLC

\* ---- bounds of the model ------------------------------------------------
NumSessions == 2      \* Session objects ever created by the acceptor
NumTopics   == 2      \* distinct topic strings used by the clients
MaxSends    == 2      \* valid send commands processed in one run of Spec
MaxSendsOneTopic == 3 \* valid send commands processed in one run of SpecOneTopic
cache_size  == 2      \* the cache capacity given on the command line
MaxSendsLogged == 2   \* valid send commands processed in one run of SpecLogged
MaxSubscribesLogged == 1  \* subscribe commands of one client in one run of SpecLogged

Sessions == 1..NumSessions   \* a session is its address: set<SessionPtr> iterates in this order
Topics   == 1..NumTopics

\* ---- 64-bit and 32-bit integers -----------------------------------------
\* A JSON int64 is kept as its two 32-bit words: hi is the upper word read as
\* a signed number, lo is the lower word read as a signed number, so the value
\* is hi * 2^32 + (lo mod 2^32).
I64(h, l) == [hi |-> h, lo |-> l]

\* static_cast<int>(int64): modular since C++20 (the build uses -std=c++20),
\* i.e. the lower word.
static_cast_int(v) == v.lo

\* the last_seen values the clients send; every one is of js::kind::int64
LastSeenValues ==
    { I64(0, 0),       \* 0
      I64(0, -1),      \* 2^32 - 1
      I64(-1, 0) }     \* -2^32

CacheFlags == {"absent", "true", "false"}

\* the last_seen and cache fields of the subscribe commands the clients send:
\* <<cache, last_seen present, last_seen>>
SubscribeFields ==
    {<<"absent", FALSE, I64(0, 0)>>, <<"true", FALSE, I64(0, 0)>>,
     <<"false", FALSE, I64(0, 0)>>, <<"false", TRUE, I64(0, 0)>>}
    \cup {<<"absent", TRUE, ls>> : ls \in LastSeenValues}
Deliveries == {"all", "one"}

\* ---- JSON values and the command schemas --------------------------------
\* A parsed JSON value: its js::kind and, for an object, its members, each a
\* key with the kind of its value and the value written as a string.
Member(name, kind, v) == [name |-> name, kind |-> kind, v |-> v]
Object(members) == [kind |-> "object", members |-> members]
Scalar(kind) == [kind |-> kind, members |-> {}]
NoValue == Scalar("none")

\* FieldSpec with its key: kind, required, allowed literals ({}: any)
FieldSpec(name, kind, required, values) ==
    [name |-> name, kind |-> kind, required |-> required, values |-> values]

template_subscribe ==
    { FieldSpec("command", "string", TRUE, {}),
      FieldSpec("topic", "string", TRUE, {}),
      FieldSpec("last_seen", "int64", FALSE, {}),
      FieldSpec("cache", "bool", FALSE, {}) }

template_unsubscribe ==
    { FieldSpec("command", "string", TRUE, {}),
      FieldSpec("topic", "string", TRUE, {}) }

template_send ==
    { FieldSpec("command", "string", TRUE, {}),
      FieldSpec("topic", "string", TRUE, {}),
      FieldSpec("msg", "string", TRUE, {}),
      FieldSpec("delivery", "string", TRUE, {"all", "one"}),
      FieldSpec("cache", "bool", FALSE, {}) }

\* o.contains(k) and o.at(k)
contains(o, k) == \E f \in o : f.name = k
at(o, k) == CHOOSE f \in o : f.name = k

template_match(t, o) ==
    /\ \A f \in o : \E spec \in t : spec.name = f.name
    /\ \A spec \in t :
        /\ spec.required => contains(o, spec.name)
        /\ contains(o, spec.name) =>
              /\ at(o, spec.name).kind = spec.kind
              /\ (spec.values = {} \/ at(o, spec.name).v \in spec.values)

verify_command(o) ==
    /\ contains(o, "command")
    /\ at(o, "command").kind = "string"
    /\ LET cmd == at(o, "command").v
       IN IF cmd = "subscribe" THEN template_match(template_subscribe, o)
          ELSE IF cmd = "unsubscribe" THEN template_match(template_unsubscribe, o)
          ELSE IF cmd = "send" THEN template_match(template_send, o)
          ELSE FALSE

\* do_read: val.is_object() && verify_command(val.as_object())
accepted(val) == val.kind = "object" /\ verify_command(val.members)

\* the values clients send: two commands and one value of each way of not
\* being a command
Command(name) == Member("command", "string", name)
Topic == Member("topic", "string", "t")
Text == Member("msg", "string", "m")

ValidValues ==
    { Object({Command("subscribe"), Topic}),
      Object({Command("send"), Topic, Text, Member("delivery", "string", "one"),
              Member("cache", "bool", "false")}) }

MalformedValues ==
    { Scalar("string"),
      Scalar("array"),
      Object({Topic}),
      Object({Member("command", "int64", "1"), Topic}),
      Object({Command("publish"), Topic}),
      Object({Command("subscribe")}),
      Object({Command("send"), Topic, Text}),
      Object({Command("unsubscribe"), Topic, Member("cache", "bool", "true")}),
      Object({Command("subscribe"), Topic, Member("last_seen", "double", "1.5")}),
      Object({Command("send"), Topic, Text, Member("delivery", "string", "some")}) }

ClientValues == ValidValues \cup MalformedValues

\* ---- records, frames ----------------------------------------------------
NoMsg == [topic |-> 0, index |-> -1, delivery |-> "none"]

\* the send command object after cmd["index"] = idx (msg text left out: the
\* broker never reads it)
Msg(t, i, d) == [topic |-> t, index |-> i, delivery |-> d]

SuccessFrame     == [kind |-> "success", reason |-> "", m |-> NoMsg]
FailureFrame(r)  == [kind |-> "failure", reason |-> r, m |-> NoMsg]
MsgFrame(m)      == [kind |-> "msg", reason |-> "", m |-> m]

\* one asio::write on the socket of session to
Write(to, f) == [to |-> to, f |-> f]

VARIABLES
    topics,       \* topic -> set of subscribed sessions
    topics_rev,   \* session -> set of topics, a map with keys
    caches,       \* topic -> sequence of messages, front first
    indexs,       \* topic -> next index
    sess,         \* session -> "none" | "reading" | "closed"
    peer,         \* session -> "up" | "gone": the client's end of the connection
    crashed,      \* an exception left io.run(): the process is gone
    hist,         \* topic -> the sends processed, in order: the index stamped and
                  \* whether a recipient was selected
    last,         \* the handler that ran last and the frames it wrote
    log           \* session -> what its client saw on the connection, in order:
                  \* its subscribe commands and the messages written to it;
                  \* kept only by SpecLogged

vars == <<topics, topics_rev, caches, indexs, sess, peer, crashed, hist, last, log>>

\* ---- helpers ------------------------------------------------------------
\* unordered_map::operator[] on topics_rev: a missing key reads as the empty set
RevGet(rev, s) == IF s \in DOMAIN rev THEN rev[s] ELSE {}
RevPut(rev, s, v) == [x \in (DOMAIN rev) \cup {s} |-> IF x = s THEN v ELSE rev[x]]
RevErase(rev, s) == [x \in (DOMAIN rev) \ {s} |-> rev[x]]

Min(S) == CHOOSE x \in S : \A y \in S : x <= y

\* iteration of a std::set<SessionPtr>: ascending
RECURSIVE SetToSeq(_)
SetToSeq(S) == IF S = {} THEN <<>> ELSE <<Min(S)>> \o SetToSeq(S \ {Min(S)})

\* trim_cache with the loop left out
trim_cache_no_pop(q) == q

\* trim_cache with pop_back in place of pop_front
trim_cache_pop_back(q) == IF Len(q) > cache_size THEN SubSeq(q, 1, cache_size) ELSE q

RECURSIVE trim_cache(_)
trim_cache(q) == IF Len(q) > cache_size THEN trim_cache(Tail(q)) ELSE q

\* the frames a list of writes gets onto the wire: all of them, or the ones
\* before a write that throws; a write can throw when the peer is gone.
\* n = Len(ws) means no write threw.
WriteOutcomes(ws) ==
    {Len(ws)} \cup {n \in 0..(Len(ws) - 1) : peer[ws[n + 1].to] = "gone"}

\* last: op and self are the handler and its session; topic, delivery, cache
\* (the flag as cache_flag reads it) and k (last_seen as sent, -1 when absent)
\* are the command's fields; subs and q are topics[topic] and caches[topic]
\* when the handler started; idx is the index a send stamped; writes are the
\* frames written, in order; threw tells that a write threw; rev is the
\* reverse entry of self when the handler started; val is the JSON value of a
\* record refused as malformed.
NoLast ==
    [op |-> "none", self |-> 0, topic |-> 0, delivery |-> "none",
     cache |-> TRUE, k |-> I64(-1, -1),
     subs |-> {}, q |-> <<>>, rev |-> {}, idx |-> -1, writes |-> <<>>,
     threw |-> FALSE, val |-> NoValue]

Init ==
    /\ topics = [t \in Topics |-> {}]
    /\ topics_rev = <<>>
    /\ caches = [t \in Topics |-> <<>>]
    /\ indexs = [t \in Topics |-> 0]
    /\ sess = [s \in Sessions |-> "none"]
    /\ peer = [s \in Sessions |-> "up"]
    /\ crashed = FALSE
    /\ hist = [t \in Topics |-> <<>>]
    /\ last = NoLast
    /\ log = [s \in Sessions |-> <<>>]

\* ---- the handlers -------------------------------------------------------
\* bool want_cache / do_cache = cmd.contains("cache") ? cmd.at("cache").as_bool() : true
cache_flag(c) == IF c = "absent" THEN TRUE ELSE c = "true"

\* int last_seen = -1; if the field is there, static_cast<int>(as_int64())
subscribe_last_seen(has, v) == IF has THEN static_cast_int(v) ELSE -1

\* send_cached, first loop, walking the cache from the back
unseen_newest_first(q, last_seen) ==
    LET u == SelectSeq(q, LAMBDA m : m.index > last_seen)
    IN [i \in 1..Len(u) |-> u[Len(u) + 1 - i]]

\* send_cached, first loop: the messages it writes, in cache order
unseen(q, last_seen) == SelectSeq(q, LAMBDA m : m.index > last_seen)

\* send_cached with the second loop keeping every entry
rebuild_keep_all(q, last_seen) == trim_cache(q)

\* send_cached, second loop, swap and trim_cache
rebuild(q, last_seen) ==
    trim_cache(SelectSeq(q, LAMBDA m : m.index <= last_seen \/ m.delivery = "all"))

\* handle_send: the sets recipients can be after the selection
select_recipients(delivery, subs) ==
    IF delivery = "all" THEN {subs}
    ELSE IF subs = {} THEN {{}}
    ELSE {{r} : r \in subs}

\* select_do_cache without do_cache = false in the "one" branch
select_do_cache_kept(delivery, subs, do_cache) == do_cache

\* handle_send: do_cache after the selection
select_do_cache(delivery, subs, do_cache) ==
    IF delivery # "all" /\ subs # {} THEN FALSE ELSE do_cache

\* indexs[topic] read and not incremented
post_increment_lost(i) == i

\* indexs[topic]++
post_increment(i) == i + 1

\* q.push_back(cmd); trim_cache(q)
cache_push(q, m) == trim_cache(Append(q, m))

\* cleanup without the loop over the reverse entry
cleanup_topics_no_erase(tp, rv, self) == tp

\* cleanup: topics[t].erase(self) for every t of the reverse entry
cleanup_topics(tp, rv, self) ==
    IF self \in DOMAIN rv
    THEN [t \in DOMAIN tp |-> IF t \in rv[self] THEN tp[t] \ {self} ELSE tp[t]]
    ELSE tp

\* cleanup without topics_rev.erase(it)
cleanup_rev_no_erase(rv, self) == rv

\* cleanup: topics_rev.erase(it)
cleanup_rev(rv, self) == IF self \in DOMAIN rv THEN RevErase(rv, self) ELSE rv

\* io_context::run is between two handlers: the last one returned (no handler
\* runs while another does, there is one thread) and the process is alive
Idle == ~crashed /\ last.op = "none"

\* the handler returns to io_context::run, its next read (or accept) armed
Return ==
    /\ ~crashed
    /\ last.op # "none"
    /\ last' = NoLast
    /\ UNCHANGED <<topics, topics_rev, caches, indexs, sess, peer, crashed, hist>>

\* Server::do_accept: make_shared<Session>(...)->start()
Accept(self) ==
    /\ Idle
    /\ sess[self] = "none"
    /\ sess' = [sess EXCEPT ![self] = "reading"]
    /\ last' = [NoLast EXCEPT !.op = "accept", !.self = self]
    /\ UNCHANGED <<topics, topics_rev, caches, indexs, peer, crashed, hist>>

\* the client closes or resets its end; the broker has not noticed yet
ClientClose(self) ==
    /\ Idle
    /\ sess[self] = "reading"
    /\ peer[self] = "up"
    /\ peer' = [peer EXCEPT ![self] = "gone"]
    /\ UNCHANGED <<topics, topics_rev, caches, indexs, sess, crashed, hist, last>>

\* Session::cleanup, called from the read callback
cleanup(self, why) ==
    /\ topics' = cleanup_topics(topics, topics_rev, self)
    /\ topics_rev' = cleanup_rev(topics_rev, self)
    /\ sess' = [sess EXCEPT ![self] = "closed"]
    /\ last' = [NoLast EXCEPT !.op = why, !.self = self,
                              !.rev = RevGet(topics_rev, self)]
    /\ UNCHANGED <<caches, indexs, peer, crashed, hist>>

\* do_read callback: if (sys_err) return cleanup();
ReadError(self) ==
    /\ Idle
    /\ sess[self] = "reading"
    /\ peer[self] = "gone"
    /\ cleanup(self, "read_error")

\* do_read callback: if (line == "quit") return cleanup();
Quit(self) ==
    /\ Idle
    /\ sess[self] = "reading"
    /\ cleanup(self, "quit")

\* do_read callback: if (line.empty()) return do_read();
EmptyLine(self) ==
    /\ Idle
    /\ sess[self] = "reading"
    /\ last' = [NoLast EXCEPT !.op = "empty", !.self = self]
    /\ UNCHANGED <<topics, topics_rev, caches, indexs, sess, peer, crashed, hist>>

FailureReasons ==
    { "Could not decode input as UTF-8",
      "Could not parse json",
      "Malformed json message" }

\* the two refusals that come before there is a JSON value
DecodeFailureReasons ==
    { "Could not decode input as UTF-8",
      "Could not parse json" }

\* do_read callback: the three send_failure branches
Reject(self, reason) ==
    /\ Idle
    /\ sess[self] = "reading"
    /\ LET ws == <<Write(self, FailureFrame(reason))>>
       IN \E n \in WriteOutcomes(ws) :
            /\ crashed' = (n < Len(ws))
            /\ last' = [NoLast EXCEPT !.op = "reject", !.self = self,
                                      !.writes = SubSeq(ws, 1, n),
                                      !.threw = (n < Len(ws))]
    /\ UNCHANGED <<topics, topics_rev, caches, indexs, sess, peer, hist>>

\* do_read callback: a record that parsed to val, refused by
\* if (!val.is_object() || !verify_command(val.as_object()))
Malformed(self, val) ==
    /\ Idle
    /\ sess[self] = "reading"
    /\ ~accepted(val)
    /\ LET ws == <<Write(self, FailureFrame("Malformed json message"))>>
       IN \E n \in WriteOutcomes(ws) :
            /\ crashed' = (n < Len(ws))
            /\ last' = [NoLast EXCEPT !.op = "reject", !.self = self,
                                      !.writes = SubSeq(ws, 1, n),
                                      !.threw = (n < Len(ws)),
                                      !.val = val]
    /\ UNCHANGED <<topics, topics_rev, caches, indexs, sess, peer, hist>>

\* handle_subscribe without the test of want_cache before send_cached
subscribe_replay_always(want_cache, q, last_seen) == unseen(q, last_seen)

\* handle_subscribe: if (want_cache) send_cached(topic, last_seen, sock_)
subscribe_replay(want_cache, q, last_seen) ==
    IF want_cache THEN unseen(q, last_seen) ELSE <<>>

\* topics[topic].insert(self)
topics_insert(tp, topic, self) == [tp EXCEPT ![topic] = @ \cup {self}]

\* handle_unsubscribe without the erase from the forward set
topics_erase_skipped(tp, topic, self) == tp

\* topics[topic].erase(self)
topics_erase(tp, topic, self) == [tp EXCEPT ![topic] = @ \ {self}]

\* Session::handle_subscribe, send_cached included
Subscribe(self, topic, has_last_seen, ls, cache) ==
    /\ Idle
    /\ sess[self] = "reading"
    /\ LET last_seen  == subscribe_last_seen(has_last_seen, ls)
           want_cache == cache_flag(cache)
           q          == caches[topic]
           replay     == subscribe_replay(want_cache, q, last_seen)
           ws         == <<Write(self, SuccessFrame)>>
                         \o [i \in 1..Len(replay) |-> Write(self, MsgFrame(replay[i]))]
       IN \E n \in WriteOutcomes(ws) :
            /\ topics' = topics_insert(topics, topic, self)
            /\ topics_rev' = RevPut(topics_rev, self, RevGet(topics_rev, self) \cup {topic})
            /\ caches' = IF want_cache /\ n = Len(ws)
                         THEN [caches EXCEPT ![topic] = rebuild(q, last_seen)]
                         ELSE caches
            /\ crashed' = (n < Len(ws))
            /\ last' = [NoLast EXCEPT !.op = "subscribe", !.self = self,
                                      !.topic = topic, !.cache = want_cache,
                                      !.k = IF has_last_seen THEN ls ELSE I64(-1, -1),
                                      !.subs = topics[topic], !.q = q,
                                      !.rev = RevGet(topics_rev, self),
                                      !.writes = SubSeq(ws, 1, n),
                                      !.threw = (n < Len(ws))]
    /\ UNCHANGED <<indexs, sess, peer, hist>>

\* Session::handle_unsubscribe
Unsubscribe(self, topic) ==
    /\ Idle
    /\ sess[self] = "reading"
    /\ LET ws == <<Write(self, SuccessFrame)>>
       IN \E n \in WriteOutcomes(ws) :
            /\ topics' = topics_erase(topics, topic, self)
            /\ topics_rev' = RevPut(topics_rev, self, RevGet(topics_rev, self) \ {topic})
            /\ crashed' = (n < Len(ws))
            /\ last' = [NoLast EXCEPT !.op = "unsubscribe", !.self = self,
                                      !.topic = topic, !.subs = topics[topic],
                                      !.rev = RevGet(topics_rev, self),
                                      !.writes = SubSeq(ws, 1, n),
                                      !.threw = (n < Len(ws))]
    /\ UNCHANGED <<caches, indexs, sess, peer, hist>>

\* the send commands processed so far, all topics together
RECURSIVE SendsUpTo(_)
SendsUpTo(t) == IF t = 0 THEN 0 ELSE Len(hist[t]) + SendsUpTo(t - 1)
TotalSends == SendsUpTo(NumTopics)

\* Session::handle_send
Send(self, topic, delivery, cache) ==
    /\ Idle
    /\ sess[self] = "reading"
    /\ LET idx      == indexs[topic]
           m        == Msg(topic, idx, delivery)
           subs     == topics[topic]
           do_cache == select_do_cache(delivery, subs, cache_flag(cache))
           q        == caches[topic]
       IN \E recipients \in select_recipients(delivery, subs) :
            LET rs == SetToSeq(recipients)
                ws == [i \in 1..Len(rs) |-> Write(rs[i], MsgFrame(m))]
                      \o <<Write(self, SuccessFrame)>>
            IN \E n \in WriteOutcomes(ws) :
                 /\ indexs' = [indexs EXCEPT ![topic] = post_increment(idx)]
                 /\ caches' = IF do_cache
                              THEN [caches EXCEPT ![topic] = cache_push(q, m)]
                              ELSE caches
                 /\ hist' = [hist EXCEPT ![topic] =
                                Append(@, [index |-> idx, live |-> recipients # {}])]
                 /\ crashed' = (n < Len(ws))
                 /\ last' = [NoLast EXCEPT !.op = "send", !.self = self,
                                           !.topic = topic, !.delivery = delivery,
                                           !.cache = cache_flag(cache), !.subs = subs, !.q = q,
                                           !.idx = idx, !.rev = RevGet(topics_rev, self),
                                           !.writes = SubSeq(ws, 1, n),
                                           !.threw = (n < Len(ws))]
    /\ UNCHANGED <<topics, topics_rev, sess, peer>>

\* the handlers that can run, for clients that use the topics TT and send at
\* most maxs valid send commands
NextOn(TT, maxs) ==
    \/ Return
    \/ \E self \in Sessions : Accept(self)
    \/ \E self \in Sessions : ClientClose(self)
    \/ \E self \in Sessions : ReadError(self)
    \/ \E self \in Sessions : Quit(self)
    \/ \E self \in Sessions : EmptyLine(self)
    \/ \E self \in Sessions, reason \in DecodeFailureReasons : Reject(self, reason)
    \/ \E self \in Sessions, val \in ClientValues : Malformed(self, val)
    \/ \E self \in Sessions, topic \in TT, f \in SubscribeFields :
          Subscribe(self, topic, f[2], f[3], f[1])
    \/ \E self \in Sessions, topic \in TT : Unsubscribe(self, topic)
    \/ \E self \in Sessions, topic \in TT, delivery \in Deliveries, cache \in CacheFlags :
          /\ TotalSends < maxs
          /\ Send(self, topic, delivery, cache)

Next == NextOn(Topics, MaxSends) /\ UNCHANGED log

Spec == Init /\ [][Next]_vars

\* the same broker, with clients that all use one topic and send more
OneTopic == {Min(Topics)}

NextOneTopic == NextOn(OneTopic, MaxSendsOneTopic) /\ UNCHANGED log

SpecOneTopic == Init /\ [][NextOneTopic]_vars

\* the same broker on one topic, with the log of every client kept; a client
\* sends at most MaxSubscribesLogged subscribe commands
LogSubscribe(topic) == [kind |-> "subscribe", m |-> Msg(topic, -1, "none")]
LogMsg(m) == [kind |-> "msg", m |-> m]

Subscribes(lg) == Len(SelectSeq(lg, LAMBDA e : e.kind = "subscribe"))

\* the log of s after the handler h
Logged(lg, s, h) ==
    LET mine == SelectSeq(h.writes, LAMBDA w : w.to = s /\ w.f.kind = "msg")
    IN lg \o (IF h.op = "subscribe" /\ h.self = s THEN <<LogSubscribe(h.topic)>> ELSE <<>>)
          \o [i \in 1..Len(mine) |-> LogMsg(mine[i].f.m)]

NextLogged ==
    /\ NextOn(OneTopic, MaxSendsLogged)
    /\ last'.op = "subscribe" => Subscribes(log[last'.self]) < MaxSubscribesLogged
    /\ log' = [s \in Sessions |-> Logged(log[s], s, last')]

SpecLogged == Init /\ [][NextLogged]_vars

\* ---- what the claims speak of -------------------------------------------
Range(q) == {q[i] : i \in 1..Len(q)}

\* the writes of the last handler that carry a message, and the others
MsgWrites == SelectSeq(last.writes, LAMBDA w : w.f.kind = "msg")
ReplyWrites == SelectSeq(last.writes, LAMBDA w : w.f.kind # "msg")

\* the send of topic t that was stamped index i
HistOf(t, i) == hist[t][i + 1]

\* the 64-bit value v is less than the index i (0 <= i < 2^31)
I64Less(v, i) ==
    IF v.hi < 0 THEN TRUE
    ELSE IF v.hi > 0 THEN FALSE
    ELSE v.lo >= 0 /\ v.lo < i

\* C1: for every topic T and session S, S is in topics[T] iff T is in
\* topics_rev[S], in every reachable state.
C1_ForwardIffReverse ==
    \A t \in Topics, s \in Sessions :
        s \in topics[t] <=> (s \in DOMAIN topics_rev /\ t \in topics_rev[s])

\* a session that held subscriptions was cleaned up while another session
\* still holds one
C1_Witness ==
    /\ last.op \in {"quit", "read_error"}
    /\ last.rev # {}
    /\ \E s \in Sessions, t \in Topics : s \in topics[t]

\* C2: a closed session is in no forward set and has no reverse entry, no
\* handler (the quit handler included) writes a frame to it, and it stays
\* closed.
C2_ClosedIsPurged ==
    /\ [](\A s \in Sessions :
            sess[s] = "closed" =>
                /\ \A t \in Topics : s \notin topics[t]
                /\ s \notin DOMAIN topics_rev
                /\ \A i \in 1..Len(last.writes) : last.writes[i].to # s)
    /\ [][\A s \in Sessions : sess[s] = "closed" => sess'[s] = "closed"]_vars

\* after a subscribed session was closed, a send to its topic went to the
\* subscriber that is left
C2_Witness ==
    /\ last.op = "send"
    /\ Len(MsgWrites) > 0
    /\ \E s \in Sessions : sess[s] = "closed" /\ s \notin last.subs

\* C3: indexs[T] is the number of sends to T processed, the k-th of them was
\* stamped k (from 0), whatever its delivery, cache flag and recipients.
C3_IndexCountsSends ==
    /\ \A t \in Topics :
        /\ indexs[t] = Len(hist[t])
        /\ \A k \in 1..Len(hist[t]) : hist[t][k].index = k - 1
    /\ last.op = "send" =>
        /\ indexs[last.topic] = last.idx + 1
        /\ \A i \in 1..Len(MsgWrites) : MsgWrites[i].f.m.index = last.idx

\* two sends to one topic, one with a recipient and one without
C3_Witness ==
    \E t \in Topics :
        /\ Len(hist[t]) >= 2
        /\ hist[t][1].live # hist[t][2].live
        /\ indexs[t] = 2

\* C4: every cache has at most cache_size entries, of strictly increasing
\* index from front to back.
C4_CacheBoundedIncreasing ==
    \A t \in Topics :
        /\ Len(caches[t]) <= cache_size
        /\ \A i, j \in 1..Len(caches[t]) :
              i < j => caches[t][i].index < caches[t][j].index

\* a full cache of two or more entries whose oldest entry was dropped
C4_Witness ==
    \E t \in Topics :
        /\ Len(caches[t]) = cache_size
        /\ Len(caches[t]) >= 2
        /\ caches[t][1].index > 0

C7_Original ==
    (last.op = "send" /\ last.delivery = "all" /\ peer[last.self] = "up") =>
        /\ Len(MsgWrites) = Cardinality(last.subs)
        /\ {MsgWrites[i].to : i \in 1..Len(MsgWrites)} = last.subs
        /\ \A i \in 1..Len(MsgWrites) :
              MsgWrites[i].f.m = Msg(last.topic, last.idx, "all")
        /\ ReplyWrites = <<Write(last.self, SuccessFrame)>>

\* C8 as stated, for a publisher whose connection is up: a send with delivery
\* "one" to a topic with subscribers writes the message to exactly one of
\* them, and a success reply to the publisher.
C8_Original ==
    (last.op = "send" /\ last.delivery = "one" /\ last.subs # {}
        /\ peer[last.self] = "up") =>
        /\ Len(MsgWrites) = 1
        /\ MsgWrites[1].to \in last.subs
        /\ MsgWrites[1].f.m = Msg(last.topic, last.idx, "one")
        /\ ReplyWrites = <<Write(last.self, SuccessFrame)>>

\* C9 as stated, for a subscriber whose connection is up: a subscribe with
\* replay writes the success reply and then the cached messages of index > k,
\* each once, in cache order (which is index order, by C4).
C9_Original ==
    (last.op = "subscribe" /\ last.cache /\ peer[last.self] = "up") =>
        LET want == SelectSeq(last.q, LAMBDA m : I64Less(last.k, m.index))
        IN last.writes =
               <<Write(last.self, SuccessFrame)>>
               \o [i \in 1..Len(want) |-> Write(last.self, MsgFrame(want[i]))]

\* C10 as stated: the messages a replay writes, when every write succeeds, are
\* exactly the cached messages m with m.index > k, k the 64-bit last_seen.
C10_Original ==
    (last.op = "subscribe" /\ last.cache /\ ~last.threw) =>
        {MsgWrites[i].f.m : i \in 1..Len(MsgWrites)}
            = {m \in Range(last.q) : I64Less(last.k, m.index)}

\* C11: a subscribe with cache = false registers the session and writes the
\* success reply and nothing else, whatever last_seen is: no cached message is
\* sent and no cache changes. (The reply is missing only when the write to the
\* subscriber's own connection, whose peer is gone, throws.)
C11_SubscribeNoReplay ==
    [][ (last'.op = "subscribe" /\ ~last'.cache) =>
          /\ last'.self \in topics'[last'.topic]
          /\ last'.self \in DOMAIN topics_rev'
          /\ last'.topic \in topics_rev'[last'.self]
          /\ caches' = caches
          /\ indexs' = indexs
          /\ last'.writes = IF last'.threw THEN <<>>
                            ELSE <<Write(last'.self, SuccessFrame)>>
          /\ last'.threw => peer[last'.self] = "gone" ]_vars

\* a subscribe with cache = false and last_seen = 0 on a topic whose cache
\* holds a message of higher index
C11_Witness ==
    /\ last.op = "subscribe"
    /\ ~last.cache
    /\ ~last.threw
    /\ last.k = I64(0, 0)
    /\ \E i \in 1..Len(last.q) : last.q[i].index > 0

\* C12 as stated: when a send with delivery "all" has several recipients and
\* the write to one of them fails, every recipient whose connection is up is
\* still written the message, the publisher (if its connection is up) is still
\* written its success reply, and the broker keeps serving.
C12_Original ==
    (last.op = "send" /\ last.delivery = "all" /\ Cardinality(last.subs) >= 2
        /\ last.threw) =>
        /\ \A r \in last.subs :
              peer[r] = "up" =>
                 \E i \in 1..Len(MsgWrites) :
                    MsgWrites[i] = Write(r, MsgFrame(Msg(last.topic, last.idx, "all")))
        /\ peer[last.self] = "up" =>
              \E i \in 1..Len(ReplyWrites) :
                 ReplyWrites[i] = Write(last.self, SuccessFrame)
        /\ ~crashed

\* C13 as stated: every value of MalformedValues (not an object, no or
\* non-string command, unknown command, missing, extra or wrong-typed field,
\* delivery other than "all"/"one") is refused by the codec and the valid
\* commands are not; a refused record (these, invalid UTF-8, unparsable JSON)
\* gets exactly one failure frame written to its sender, leaves registry,
\* caches and index counters unchanged, and leaves the session reading in a
\* running broker, so that its next command is handled; an empty record
\* writes nothing and changes no state.
C13_Original ==
    /\ [](/\ \A val \in MalformedValues : ~accepted(val)
          /\ \A val \in ValidValues : accepted(val))
    /\ [][ /\ last'.op = "reject" =>
                /\ UNCHANGED <<topics, topics_rev, caches, indexs, sess, hist>>
                /\ last'.val # NoValue => last'.val \in MalformedValues
                /\ Len(last'.writes) = 1
                /\ last'.writes[1].to = last'.self
                /\ last'.writes[1].f.kind = "failure"
                /\ last'.writes[1].f.reason \in FailureReasons
                /\ sess'[last'.self] = "reading"
                /\ ~crashed'
           /\ last'.op = "empty" =>
                /\ UNCHANGED <<topics, topics_rev, caches, indexs, sess, hist,
                               crashed>>
                /\ last'.writes = <<>> ]_vars

\* the message frames the last handler wrote to session s
WritesTo(s) == SelectSeq(MsgWrites, LAMBDA w : w.to = s)

\* C14 as stated: a subscribe by a session that is already subscribed to the
\* topic leaves the registry (both maps) as it was; a send with delivery "all"
\* then writes exactly one copy to every subscriber whose connection is up;
\* one unsubscribe takes the session out of the topic's subscriber set and the
\* topic out of the session's reverse entry.
C14_Original ==
    [][ /\ (last'.op = "subscribe" /\ last'.self \in topics[last'.topic]) =>
              /\ topics' = topics
              /\ topics_rev' = topics_rev
        /\ (last'.op = "send" /\ last'.delivery = "all") =>
              \A s \in topics[last'.topic] :
                 peer[s] = "up" => Len(WritesTo(s)') = 1
        /\ last'.op = "unsubscribe" =>
              /\ last'.self \notin topics'[last'.topic]
              /\ last'.topic \notin RevGet(topics_rev', last'.self) ]_vars

\* C15: an unsubscribe is answered by a success frame whether or not the
\* session was subscribed (the frame is missing only when the write to the
\* session's own gone connection throws); it removes the session from that
\* topic's subscriber set and from nothing else, so the subscriber sets of all
\* topics are unchanged when it was not subscribed and its other subscriptions
\* stay; a send writes messages only to sessions that are in the topic's
\* subscriber set, and a session enters a subscriber set only by its own
\* subscribe to that topic.
C15_Unsubscribe ==
    [][ /\ last'.op = "unsubscribe" =>
              /\ topics' = [topics EXCEPT ![last'.topic] = @ \ {last'.self}]
              /\ last'.self \notin topics[last'.topic] => topics' = topics
              /\ \A s \in Sessions :
                    RevGet(topics_rev', s) =
                       IF s = last'.self
                       THEN RevGet(topics_rev, s) \ {last'.topic}
                       ELSE RevGet(topics_rev, s)
              /\ UNCHANGED <<caches, indexs>>
              /\ last'.writes = IF last'.threw THEN <<>>
                                ELSE <<Write(last'.self, SuccessFrame)>>
              /\ last'.threw => peer[last'.self] = "gone"
        /\ last'.op = "send" =>
              \A s \in Sessions :
                 s \notin topics[last'.topic] => WritesTo(s)' = <<>>
        /\ \A t \in Topics, s \in Sessions :
              (s \notin topics[t] /\ s \in topics'[t]) =>
                 (last'.op = "subscribe" /\ last'.self = s /\ last'.topic = t) ]_vars

\* a session unsubscribes from a topic it is not subscribed to, holding a
\* subscription to another topic, while a session is subscribed to the topic
C15_Witness ==
    /\ last.op = "unsubscribe"
    /\ ~last.threw
    /\ last.self \notin last.subs
    /\ last.subs # {}
    /\ last.rev # {}
    /\ topics[last.topic] = last.subs

\* the messages the last handler, a subscribe, replayed
Replayed == {MsgWrites[i].f.m : i \in 1..Len(MsgWrites)}

LogIndexes(lg, d) ==
    LET ms == SelectSeq(lg, LAMBDA e : e.kind = "msg" /\ e.m.delivery = d)
    IN [i \in 1..Len(ms) |-> ms[i].m.index]

\* no value occurs twice in the sequence
NoRepeat(seq) == \A i, j \in 1..Len(seq) : seq[i] = seq[j] => i = j

\* C17 as stated, each client subscribing once: an "all" message stamped
\* while the session was already subscribed is written live to it (its
\* connection being up), and to no session that was not subscribed; a message
\* a subscribe replays was stamped before that subscribe, is in the cache and
\* has an index above last_seen; no session is written the same "all" message
\* twice.
C17_Original ==
    [][ /\ (last'.op = "send" /\ last'.delivery = "all") =>
              \A s \in Sessions :
                 IF s \in topics[last'.topic]
                 THEN peer[s] = "up" =>
                         WritesTo(s)' = <<Write(s, MsgFrame(Msg(last'.topic, last'.idx, "all")))>>
                 ELSE WritesTo(s)' = <<>>
        /\ last'.op = "subscribe" =>
              \A m \in Replayed' :
                 m.delivery = "all" =>
                    /\ last'.cache
                    /\ m.index < indexs[last'.topic]
                    /\ m \in Range(caches[last'.topic])
                    /\ I64Less(last'.k, m.index)
        /\ \A s \in Sessions : NoRepeat(LogIndexes(log'[s], "all")) ]_vars

\* the "all" messages of a cache
AllIn(q) == SelectSeq(q, LAMBDA m : m.delivery = "all")

\* a send with delivery "all" puts its message at the tail of the topic's
\* cache if its cache flag is absent or true, and changes no cache otherwise
AppendedIffFlag ==
    (last'.op = "send" /\ last'.delivery = "all") =>
        IF last'.cache
        THEN cache_size > 0 =>
                /\ caches'[last'.topic] # <<>>
                /\ caches'[last'.topic][Len(caches'[last'.topic])]
                      = Msg(last'.topic, last'.idx, "all")
        ELSE caches' = caches

OneWrites(i) ==
    UNION { { <<s, p>> : p \in {p \in 1..Len(log[s]) :
                                   log[s][p] = LogMsg(Msg(Min(Topics), i, "one"))} }
            : s \in Sessions }

\* C19: over a whole execution every "one" message is written to at most one
\* session, live and replay counted together; a "one" message sent by a
\* catch-up that completes is no longer in the cache after it, and a "one"
\* message for which a live recipient was selected is not in the cache.
C19_OneAtMostOnce ==
    /\ \A i \in 0..(MaxSendsLogged - 1) : Cardinality(OneWrites(i)) <= 1
    /\ (last.op = "subscribe" /\ ~last.threw) =>
          \A m \in Replayed : m.delivery = "one" => m \notin Range(caches[last.topic])
    /\ (last.op = "send" /\ last.delivery = "one" /\ last.subs # {}) =>
          /\ Len(MsgWrites) <= 1
          /\ Msg(last.topic, last.idx, "one") \notin Range(caches[last.topic])

\* a "one" message published to the topic without subscribers was replayed to
\* one session, and now a second session has subscribed with replay from the
\* start and is not sent it
C19_Witness ==
    /\ last.op = "subscribe"
    /\ last.cache
    /\ ~last.threw
    /\ last.k = I64(-1, -1)
    /\ \E i \in 0..(MaxSendsLogged - 1) : \E sp \in OneWrites(i) :
          /\ sp[1] # last.self
          /\ ~HistOf(Min(Topics), i).live
    /\ Subscribes(log[last.self]) = 1

\* the indexes of the messages in the log lg, in the order they were written
MsgIndexes(lg) ==
    LET ms == SelectSeq(lg, LAMBDA e : e.kind = "msg")
    IN [i \in 1..Len(ms) |-> ms[i].m.index]

\* C20: for a session that has sent one subscribe for the topic (any
\* last_seen, replay enabled or not) and no further one, the messages of the
\* topic written to it, replayed and live together as they went onto its
\* connection, have strictly increasing index; a session that has sent no
\* subscribe has been written no message.
C20_IncreasingPerSession ==
    \A s \in Sessions :
        /\ Subscribes(log[s]) <= 1 =>
              \A i, j \in 1..Len(MsgIndexes(log[s])) :
                 i < j => MsgIndexes(log[s])[i] < MsgIndexes(log[s])[j]
        /\ Subscribes(log[s]) = 0 => MsgIndexes(log[s]) = <<>>

\* a session was replayed a message nobody had received live and is now
\* written a later message live
C20_Witness ==
    /\ last.op = "send"
    /\ ~last.threw
    /\ \E s \in Sessions :
          /\ WritesTo(s) # <<>>
          /\ Len(MsgIndexes(log[s])) >= 2
          /\ ~HistOf(last.topic, MsgIndexes(log[s])[1]).live
          /\ log[s][1].kind = "subscribe"

====
